---- MODULE Spec2Model ----
(***************************************************************************)
(* Scholar Stream server: the Express routes of the scholarship platform   *)
(* over the four MongoDB collections (users, scholarships, application,    *)
(* reviews), the bearer-token middleware and the two role guards.          *)
(*                                                                         *)
(* A request is handled by running its route's middleware chain and then   *)
(* its handler.  A handler with one store call is one action; a handler    *)
(* with several awaited store calls is one action per await, its locals    *)
(* kept in an in-flight slot, so that other requests may run in between.   *)
(* `last' records the most recent step: what was asked, by whom, which     *)
(* stages ran, which store calls were made and what was answered.          *)
(***************************************************************************)
EXTENDS Integers, Sequences, FiniteSets, TLC

VARIABLES users, scholarships, applications, reviews, ids, now, inflight, last

store == <<users, scholarships, applications, reviews, ids>>
vars == <<users, scholarships, applications, reviews, ids, now, inflight, last>>

(***************************************************************************)
(* Bounds of the model.                                                    *)
(***************************************************************************)
MaxUsers == 2
MaxScholarships == 1
MaxApps == 1
MaxReviews == 2
MaxClock == 1
MaxInflight == 2

(***************************************************************************)
(* JavaScript values.  Strings that the code converts are sequences of     *)
(* one-character strings; a document is a function from field names to     *)
(* values whose domain is the set of fields it has.                        *)
(***************************************************************************)
Null == "null"

Has(d, f) == f \in DOMAIN d

\* value of a body field as the driver stores it: undefined is written as null
Field(d, f) == IF Has(d, f) THEN d[f] ELSE Null

\* JavaScript truthiness of a string-valued field
Truthy(d, f) == Has(d, f) /\ d[f] # Null /\ d[f] # ""

LowerChar(c) ==
  CASE c = "A" -> "a"
    [] c = "B" -> "b"
    [] c = "X" -> "x"
    [] OTHER -> c

toLowerCase(s) == [i \in DOMAIN s |-> LowerChar(s[i])]

\* new Date().toISOString(): the clock's reading
Timestamp == now

\* new ObjectId(id) throws unless id is a well-formed ObjectId string;
\* well-formed ids are the positive integers, 0 stands for any other string
ValidObjectId(id) == id > 0

\* an async handler that throws outside a try/catch rejects its promise:
\* Express 5 answers 500, Express 4 leaves the request unanswered (status 0)
UnhandledRejection == {500, 0}

(***************************************************************************)
(* The store.  A collection is a set of documents with distinct _id.       *)
(***************************************************************************)
SetFields(doc, upd) ==
  [f \in DOMAIN doc \cup DOMAIN upd |-> IF f \in DOMAIN upd THEN upd[f] ELSE doc[f]]

\* updateOne: the collections that may result, one matching document updated
UpdateOne(coll, matches, upd) ==
  IF matches = {} THEN {coll}
  ELSE {(coll \ {d}) \cup {SetFields(d, upd)} : d \in matches}

InsertOne(coll, doc, id) == coll \cup {SetFields(doc, [_id |-> id])}

ById(coll, id) == {d \in coll : d._id = id}

ByEmail(coll, email) == {d \in coll : Has(d, "email") /\ d.email = email}

(***************************************************************************)
(* Middleware.                                                             *)
(***************************************************************************)
NoUser == [defined |-> FALSE, role |-> Null]

\* jwt.verify(token, secret, callback)
jwtVerify(token) ==
  IF token.sig = "good" THEN [err |-> FALSE, decoded |-> token.payload]
  ELSE [err |-> TRUE, decoded |-> [role |-> Null]]

\* authHeader.split(" ")[1]
HeaderToken(h) == IF Len(h) >= 2 THEN h[2] ELSE [sig |-> "absent", payload |-> [role |-> Null]]

NewCtx == [next |-> TRUE, status |-> 200, user |-> NoUser, trace |-> <<>>]

\* verifyToken without its check of the header
verifyTokenLetsMissingPass(req, ctx) ==
  LET authHeader == req.headers.authorization
      t == Append(ctx.trace, "verifyToken")
      v == jwtVerify(HeaderToken(authHeader))
  IN IF authHeader # <<>> /\ v.err
     THEN [ctx EXCEPT !.next = FALSE, !.status = 403, !.trace = t]
     ELSE [ctx EXCEPT !.user = [defined |-> authHeader # <<>>, role |-> v.decoded.role],
                      !.trace = t]

verifyToken(req, ctx) ==
  LET authHeader == req.headers.authorization
      t == Append(ctx.trace, "verifyToken")
  IN IF authHeader = <<>>
     THEN [ctx EXCEPT !.next = FALSE, !.status = 401, !.trace = t]
     ELSE LET v == jwtVerify(HeaderToken(authHeader))
          IN IF v.err
             THEN [ctx EXCEPT !.next = FALSE, !.status = 403, !.trace = t]
             ELSE [ctx EXCEPT !.user = [defined |-> TRUE, role |-> v.decoded.role],
                              !.trace = t]

\* reading user.role of an undefined req.user throws; Express answers 500
verifyAdmin(req, ctx) ==
  LET t == Append(ctx.trace, "verifyAdmin")
  IN IF ~ctx.user.defined
     THEN [ctx EXCEPT !.next = FALSE, !.status = 500, !.trace = t]
     ELSE IF ctx.user.role # "admin"
     THEN [ctx EXCEPT !.next = FALSE, !.status = 403, !.trace = t]
     ELSE [ctx EXCEPT !.trace = t]

verifyModerator(req, ctx) ==
  LET t == Append(ctx.trace, "verifyModerator")
  IN IF ~ctx.user.defined
     THEN [ctx EXCEPT !.next = FALSE, !.status = 500, !.trace = t]
     ELSE IF ctx.user.role # "moderator"
     THEN [ctx EXCEPT !.next = FALSE, !.status = 403, !.trace = t]
     ELSE [ctx EXCEPT !.trace = t]

Middleware(name, req, ctx) ==
  CASE name = "verifyToken" -> verifyToken(req, ctx)
    [] name = "verifyAdmin" -> verifyAdmin(req, ctx)
    [] name = "verifyModerator" -> verifyModerator(req, ctx)

\* the middleware each route is registered with, in order
Chain(route) ==
  CASE route = "POST /create-checkout-session" -> <<>>
    [] route = "GET /users" -> <<"verifyToken">>
    [] route = "GET /users/:email" -> <<"verifyToken">>
    [] route = "GET /users/role/:email" -> <<"verifyToken">>
    [] route = "POST /users" -> <<>>
    [] route = "PATCH /users/:email" -> <<"verifyToken">>
    [] route = "PATCH /users/:id/role" -> <<"verifyToken", "verifyAdmin">>
    [] route = "DELETE /users/:id" -> <<"verifyAdmin">>
    [] route = "GET /scholarships" -> <<>>
    [] route = "GET /scholarships/top" -> <<>>
    [] route = "GET /scholarships/:id" -> <<>>
    [] route = "POST /scholarships" -> <<"verifyToken", "verifyAdmin">>
    [] route = "PATCH /scholarships/:id" -> <<"verifyToken", "verifyAdmin">>
    [] route = "DELETE /scholarships/:id" -> <<"verifyToken", "verifyAdmin">>
    [] route = "GET /application" -> <<"verifyToken">>
    [] route = "POST /application" -> <<"verifyToken">>
    [] route = "GET /application/:id" -> <<"verifyToken">>
    [] route = "GET /application/user/:email" -> <<"verifyToken">>
    [] route = "GET /application/recent" -> <<"verifyToken">>
    [] route = "GET /my-application" -> <<"verifyToken">>
    [] route = "GET /manage-application/:email" -> <<"verifyToken", "verifyModerator">>
    [] route = "PATCH /application/:id" -> <<"verifyToken">>
    [] route = "PATCH /application/:id/status" -> <<"verifyToken", "verifyModerator">>
    [] route = "PATCH /application/:id/feedback" -> <<"verifyToken", "verifyModerator">>
    [] route = "DELETE /application/:id" -> <<"verifyToken">>
    [] route = "GET /application/dashboard/status" -> <<"verifyToken", "verifyAdmin">>
    [] route = "GET /reviews" -> <<"verifyToken">>
    [] route = "GET /reviews/scholarship/:scholarshipId" -> <<"verifyToken">>
    [] route = "GET /reviews/user/:email" -> <<"verifyToken">>
    [] route = "PATCH /application/:id/review" -> <<"verifyToken">>
    [] route = "PATCH /reviews/:id" -> <<"verifyToken">>
    [] route = "DELETE /reviews/:id" -> <<"verifyToken">>

RECURSIVE RunFrom(_, _, _)
RunFrom(chain, req, ctx) ==
  IF chain = <<>> THEN ctx
  ELSE LET r == Middleware(Head(chain), req, ctx)
       IN IF r.next THEN RunFrom(Tail(chain), req, r) ELSE r

RunChain(route, req) == RunFrom(Chain(route), req, NewCtx)

(***************************************************************************)
(* Responses and in-flight requests.                                       *)
(***************************************************************************)
Idle == [pc |-> "idle"]

\* the requests the server has in flight at once: one slot each
Slots == DOMAIN inflight

\* no step is being observed
NoStep ==
  [kind |-> "none", route |-> "", req |-> <<>>, user |-> NoUser,
   trace |-> <<>>, status |-> 0, ops |-> <<>>, body |-> ""]

Settled == last.kind = "none"

\* a request can be taken: a slot is idle
Accepting == Settled /\ \E s \in Slots : inflight[s].pc = "idle"

Answer(route, req, ctx, status, ops, body) ==
  [kind |-> "response", route |-> route, req |-> req, user |-> ctx.user,
   trace |-> ctx.trace, status |-> status, ops |-> ops, body |-> body]

\* a middleware ended the request
Rejected(route, req, ctx) == Answer(route, req, ctx, ctx.status, <<>>, "rejected")

\* the handler ran and answered
Handled(route, req, ctx, status, ops, body) ==
  Answer(route, req, [ctx EXCEPT !.trace = Append(ctx.trace, "handler")], status, ops, body)

\* an awaited call of a handler in flight returned and the handler goes on
Stepped(r) ==
  [kind |-> "step", route |-> r.route, req |-> r.req, user |-> r.ctx.user,
   trace |-> Append(r.ctx.trace, "handler"), status |-> 0, ops |-> r.ops,
   body |-> "pending"]

\* the answer of a handler that awaits one store call and has no try/catch
\* of its own, for a route whose id parameter goes through new ObjectId
ThrowsOr(route, req, ctx, id, answer) ==
  IF ~ctx.next THEN {Rejected(route, req, ctx)}
  ELSE IF ~ValidObjectId(id)
  THEN {Handled(route, req, ctx, st, <<>>, "threw") : st \in UnhandledRejection}
  ELSE {answer}

Proceeds(ctx, id) == ctx.next /\ ValidObjectId(id)

\* a new request is given the lowest idle slot
NewSlot(s) == inflight[s].pc = "idle" /\ \A t \in Slots : t < s => inflight[t].pc # "idle"

InFlight(route, req, ctx, pc, ops, loc) ==
  [pc |-> pc, route |-> route, req |-> req, ctx |-> ctx, ops |-> ops, loc |-> loc]

(***************************************************************************)
(* User routes.                                                            *)
(***************************************************************************)
GetUsers(req) ==
  LET route == "GET /users"
      ctx == RunChain(route, req)
  IN /\ Accepting
     /\ last' = IF ~ctx.next THEN Rejected(route, req, ctx)
                ELSE Handled(route, req, ctx, 200, <<"users.find">>, users)
     /\ UNCHANGED <<store, now, inflight>>

GetUserByEmail(req) ==
  LET route == "GET /users/:email"
      ctx == RunChain(route, req)
      found == ByEmail(users, toLowerCase(req.params.email))
  IN /\ Accepting
     /\ IF ~ctx.next THEN last' = Rejected(route, req, ctx)
        ELSE IF found = {}
        THEN last' = Handled(route, req, ctx, 404, <<"users.findOne">>, "User not found")
        ELSE \E user \in found :
               last' = Handled(route, req, ctx, 200, <<"users.findOne">>, user)
     /\ UNCHANGED <<store, now, inflight>>

\* user?.role without the default
RoleWithoutDefault(found) ==
  IF found = {} THEN {Null} ELSE {Field(user, "role") : user \in found}

\* user?.role || "student"
RoleOrDefault(found) ==
  IF found = {} THEN {"student"}
  ELSE {IF Truthy(user, "role") THEN user.role ELSE "student" : user \in found}

GetUserRole(req) ==
  LET route == "GET /users/role/:email"
      ctx == RunChain(route, req)
      found == ByEmail(users, toLowerCase(req.params.email))
  IN /\ Accepting
     /\ IF ~ctx.next THEN last' = Rejected(route, req, ctx)
        ELSE \E role \in RoleOrDefault(found) :
               last' = Handled(route, req, ctx, 200, <<"users.findOne">>, [role |-> role])
     /\ UNCHANGED <<store, now, inflight>>

\* !user || !user.email
EmailMissing(user) == ~Has(user, "email") \/ user.email = <<>>

\* POST /users handlers that found no user and have not inserted yet
PendingUserInserts ==
  Cardinality({s \in Slots : inflight[s].pc = "POST /users:write" /\ ~inflight[s].loc.existingUser})

\* POST /users up to the end of its findOne
PostUsers(s, req) ==
  LET route == "POST /users"
      ctx == RunChain(route, req)
      user == req.body
  IN /\ Settled
     /\ NewSlot(s)
     /\ IF ~ctx.next
        THEN last' = Rejected(route, req, ctx) /\ UNCHANGED inflight
        ELSE IF EmailMissing(user)
        THEN /\ last' = Handled(route, req, ctx, 400, <<>>, "Email is required")
             /\ UNCHANGED inflight
        ELSE LET email == toLowerCase(user.email)
                 existingUser == ByEmail(users, email) # {}
                 r == InFlight(route, req, ctx, "POST /users:write", <<"users.findOne">>,
                               [email |-> email, existingUser |-> existingUser])
             IN /\ existingUser \/ ids.users + PendingUserInserts < MaxUsers
                /\ inflight' = [inflight EXCEPT ![s] = r]
                /\ last' = Stepped(r)
     /\ UNCHANGED <<store, now>>

NewUser(user, email) ==
  SetFields(user, [email |-> email,
                   role |-> IF Truthy(user, "role") THEN user.role ELSE "student",
                   createdAt |-> Timestamp])

\* POST /users from its findOne on: updateOne or insertOne, and the answer
PostUsersWrite(s) ==
  LET r == inflight[s]
      user == r.req.body
  IN /\ Settled
     /\ r.pc = "POST /users:write"
     /\ IF r.loc.existingUser
        THEN /\ users' \in UpdateOne(users, ByEmail(users, r.loc.email),
                                     [name |-> Field(user, "name"),
                                      photoURL |-> Field(user, "photoURL"),
                                      updatedAt |-> Timestamp])
             /\ ids' = ids
             /\ last' = Handled(r.route, r.req, r.ctx, 200,
                                Append(r.ops, "users.updateOne"), "User updated")
        ELSE /\ users' = InsertOne(users, NewUser(user, r.loc.email), ids.users + 1)
             /\ ids' = [ids EXCEPT !.users = @ + 1]
             /\ last' = Handled(r.route, r.req, r.ctx, 200,
                                Append(r.ops, "users.insertOne"), "User created")
     /\ inflight' = [inflight EXCEPT ![s] = Idle]
     /\ UNCHANGED <<scholarships, applications, reviews, now>>

ProfileFields(body) ==
  LET a == [updatedAt |-> Timestamp]
      b == IF Truthy(body, "displayName") THEN SetFields(a, [name |-> body.displayName]) ELSE a
  IN IF Truthy(body, "photoURL") THEN SetFields(b, [photoURL |-> body.photoURL]) ELSE b

PatchUserProfile(req) ==
  LET route == "PATCH /users/:email"
      ctx == RunChain(route, req)
  IN /\ Accepting
     /\ IF ~ctx.next THEN last' = Rejected(route, req, ctx) /\ UNCHANGED users
        ELSE /\ users' \in UpdateOne(users, ByEmail(users, toLowerCase(req.params.email)),
                                     ProfileFields(req.body))
             /\ last' = Handled(route, req, ctx, 200, <<"users.updateOne">>, "Profile updated")
     /\ UNCHANGED <<scholarships, applications, reviews, ids, now, inflight>>

PatchUserRole(req) ==
  LET route == "PATCH /users/:id/role"
      ctx == RunChain(route, req)
      id == req.params.id
  IN /\ Accepting
     /\ last' \in ThrowsOr(route, req, ctx, id,
                           Handled(route, req, ctx, 200, <<"users.updateOne">>, "result"))
     /\ IF Proceeds(ctx, id)
        THEN users' \in UpdateOne(users, ById(users, id), [role |-> Field(req.body, "role")])
        ELSE UNCHANGED users
     /\ UNCHANGED <<scholarships, applications, reviews, ids, now, inflight>>

DeleteUser(req) ==
  LET route == "DELETE /users/:id"
      ctx == RunChain(route, req)
      id == req.params.id
  IN /\ Accepting
     /\ last' \in ThrowsOr(route, req, ctx, id,
                           Handled(route, req, ctx, 200, <<"users.deleteOne">>, "result"))
     /\ IF Proceeds(ctx, id)
        THEN users' = users \ ById(users, id)
        ELSE UNCHANGED users
     /\ UNCHANGED <<scholarships, applications, reviews, ids, now, inflight>>

(***************************************************************************)
(* Numbers from strings, sorting and limits.                               *)
(***************************************************************************)
\* the limits the routes are written with
RecentCap == 100
RecentDefault == 5
TopDefault == 6

\* the value JavaScript calls NaN
NaN == -999999

Digits == <<"0", "1", "2", "3", "4", "5", "6", "7", "8", "9">>

IsDigit(c) == \E i \in 1..10 : Digits[i] = c

DigitValue(c) == (CHOOSE i \in 1..10 : Digits[i] = c) - 1

RECURSIVE SkipSpaces(_, _)
SkipSpaces(str, i) == IF i <= Len(str) /\ str[i] = " " THEN SkipSpaces(str, i + 1) ELSE i

RECURSIVE DigitsValue(_, _, _)
DigitsValue(str, i, acc) ==
  IF i <= Len(str) /\ IsDigit(str[i])
  THEN DigitsValue(str, i + 1, acc * 10 + DigitValue(str[i]))
  ELSE acc

\* parseInt(str) of a decimal string: leading blanks, a sign, the longest run
\* of digits; NaN when there is no digit
parseInt(str) ==
  LET i == SkipSpaces(str, 1)
      signed == i <= Len(str) /\ str[i] \in {"-", "+"}
      j == IF signed THEN i + 1 ELSE i
  IN IF j > Len(str) \/ ~IsDigit(str[j]) THEN NaN
     ELSE IF signed /\ str[i] = "-" THEN 0 - DigitsValue(str, j, 0)
     ELSE DigitsValue(str, j, 0)

\* parseInt(req.query.limit): an absent parameter is undefined, which parses to NaN
ParseQuery(query, f) == IF Has(query, f) THEN parseInt(query[f]) ELSE NaN

\* Math.min(a, b)
MathMin(a, b) == IF a = NaN \/ b = NaN THEN NaN ELSE IF a < b THEN a ELSE b

\* x || d for a number x
NumberOr(x, d) == IF x = NaN \/ x = 0 THEN d ELSE x

\* the documents of the entries E = {[k, d]} by ascending k, equal keys in _id
\* order: each document goes to the place given by the number of entries before it
SortEntries(E) ==
  LET rank == [x \in E |->
                 Cardinality({y \in E : y.k < x.k \/ (y.k = x.k /\ y.d._id < x.d._id)})]
  IN [i \in 1..Cardinality(E) |-> (CHOOSE x \in E : rank[x] = i - 1).d]

Take(seq, n) == SubSeq(seq, 1, IF n < Len(seq) THEN n ELSE Len(seq))

\* cursor.limit(n): 0 is no limit, a negative n limits to -n
Limit(seq, n) == IF n = 0 THEN seq ELSE IF n < 0 THEN Take(seq, 0 - n) ELSE Take(seq, n)

\* a missing applicationFees sorts as null, before every number
FeeKey(d) == IF Has(d, "applicationFees") THEN d.applicationFees ELSE -1

\* find().sort({ applicationFees: 1 })
SortByFee(coll) == SortEntries({[k |-> FeeKey(d), d |-> d] : d \in coll})

\* find({ userEmail }).sort({ appliedAt: -1 })
SortByAppliedAtDesc(coll) == SortEntries({[k |-> 0 - d.appliedAt, d |-> d] : d \in coll})

(***************************************************************************)
(* Scholarship routes.                                                     *)
(***************************************************************************)
GetScholarships(req) ==
  LET route == "GET /scholarships"
      ctx == RunChain(route, req)
  IN /\ Accepting
     /\ last' = IF ~ctx.next THEN Rejected(route, req, ctx)
                ELSE Handled(route, req, ctx, 200, <<"scholarships.find">>, scholarships)
     /\ UNCHANGED <<store, now, inflight>>

\* parseInt(req.query.limit) without the default
TopLimitWithoutDefault(query) == ParseQuery(query, "limit")

\* parseInt(req.query.limit) || 6
TopLimit(query) == NumberOr(ParseQuery(query, "limit"), TopDefault)

GetTopScholarships(req) ==
  LET route == "GET /scholarships/top"
      ctx == RunChain(route, req)
  IN /\ Accepting
     /\ last' = IF ~ctx.next THEN Rejected(route, req, ctx)
                ELSE Handled(route, req, ctx, 200, <<"scholarships.find">>,
                             Limit(SortByFee(scholarships), TopLimit(req.query)))
     /\ UNCHANGED <<store, now, inflight>>

GetScholarshipById(req) ==
  LET route == "GET /scholarships/:id"
      ctx == RunChain(route, req)
      id == req.params.id
  IN /\ Accepting
     /\ last' \in ThrowsOr(route, req, ctx, id,
                           Handled(route, req, ctx, 200, <<"scholarships.findOne">>,
                                   ById(scholarships, id)))
     /\ UNCHANGED <<store, now, inflight>>

PostScholarship(req) ==
  LET route == "POST /scholarships"
      ctx == RunChain(route, req)
  IN /\ Accepting
     /\ IF ~ctx.next THEN last' = Rejected(route, req, ctx) /\ UNCHANGED <<scholarships, ids>>
        ELSE /\ ids.scholarships < MaxScholarships
             /\ scholarships' = InsertOne(scholarships, req.body, ids.scholarships + 1)
             /\ ids' = [ids EXCEPT !.scholarships = @ + 1]
             /\ last' = Handled(route, req, ctx, 200, <<"scholarships.insertOne">>, "inserted")
     /\ UNCHANGED <<users, applications, reviews, now, inflight>>

PatchScholarship(req) ==
  LET route == "PATCH /scholarships/:id"
      ctx == RunChain(route, req)
      id == req.params.id
  IN /\ Accepting
     /\ last' \in ThrowsOr(route, req, ctx, id,
                           Handled(route, req, ctx, 200, <<"scholarships.updateOne">>, "result"))
     /\ IF Proceeds(ctx, id)
        THEN scholarships' \in UpdateOne(scholarships, ById(scholarships, id), req.body)
        ELSE UNCHANGED scholarships
     /\ UNCHANGED <<users, applications, reviews, ids, now, inflight>>

DeleteScholarship(req) ==
  LET route == "DELETE /scholarships/:id"
      ctx == RunChain(route, req)
      id == req.params.id
  IN /\ Accepting
     /\ last' \in ThrowsOr(route, req, ctx, id,
                           Handled(route, req, ctx, 200, <<"scholarships.deleteOne">>, "result"))
     /\ IF Proceeds(ctx, id)
        THEN scholarships' = scholarships \ ById(scholarships, id)
        ELSE UNCHANGED scholarships
     /\ UNCHANGED <<users, applications, reviews, ids, now, inflight>>

(***************************************************************************)
(* Application routes.                                                     *)
(***************************************************************************)
\* find({ userEmail: email }): an undefined email is sent as null, which
\* matches the documents without the field
ByUserEmail(coll, email) ==
  {d \in coll : IF email = <<>> THEN ~Has(d, "userEmail")
                ELSE Has(d, "userEmail") /\ d.userEmail = email}

QueryEmail(query) == IF Has(query, "email") THEN query.email ELSE <<>>

GetApplications(req) ==
  LET route == "GET /application"
      ctx == RunChain(route, req)
  IN /\ Accepting
     /\ last' = IF ~ctx.next THEN Rejected(route, req, ctx)
                ELSE Handled(route, req, ctx, 200, <<"application.find">>, applications)
     /\ UNCHANGED <<store, now, inflight>>

NewApplication(body) ==
  SetFields(body, [appliedAt |-> Timestamp,
                   applicationStatus |-> IF Truthy(body, "applicationStatus")
                                         THEN body.applicationStatus ELSE "pending",
                   paymentStatus |-> "unpaid",
                   createdAt |-> Timestamp])

PostApplication(req) ==
  LET route == "POST /application"
      ctx == RunChain(route, req)
  IN /\ Accepting
     /\ IF ~ctx.next THEN last' = Rejected(route, req, ctx) /\ UNCHANGED <<applications, ids>>
        ELSE /\ ids.applications < MaxApps
             /\ applications' = InsertOne(applications, NewApplication(req.body),
                                          ids.applications + 1)
             /\ ids' = [ids EXCEPT !.applications = @ + 1]
             /\ last' = Handled(route, req, ctx, 200, <<"application.insertOne">>, "inserted")
     /\ UNCHANGED <<users, scholarships, reviews, now, inflight>>

GetApplicationById(req) ==
  LET route == "GET /application/:id"
      ctx == RunChain(route, req)
      id == req.params.id
  IN /\ Accepting
     /\ last' \in ThrowsOr(route, req, ctx, id,
                           Handled(route, req, ctx, 200, <<"application.findOne">>,
                                   ById(applications, id)))
     /\ UNCHANGED <<store, now, inflight>>

GetApplicationsByUser(req) ==
  LET route == "GET /application/user/:email"
      ctx == RunChain(route, req)
  IN /\ Accepting
     /\ last' = IF ~ctx.next THEN Rejected(route, req, ctx)
                ELSE Handled(route, req, ctx, 200, <<"application.find">>,
                             ByUserEmail(applications, req.params.email))
     /\ UNCHANGED <<store, now, inflight>>

\* limit ? Math.min(parseInt(limit), 100) : 5
RecentLimit(query) ==
  IF Has(query, "limit") /\ query.limit # <<>>
  THEN MathMin(parseInt(query.limit), RecentCap)
  ELSE RecentDefault

\* a limit that is not a number makes the find fail, which the handler's
\* catch answers with 500
GetRecentApplications(req) ==
  LET route == "GET /application/recent"
      ctx == RunChain(route, req)
      limitNum == RecentLimit(req.query)
      found == ByUserEmail(applications, QueryEmail(req.query))
  IN /\ Accepting
     /\ last' = IF ~ctx.next THEN Rejected(route, req, ctx)
                ELSE IF limitNum = NaN
                THEN Handled(route, req, ctx, 500, <<"application.find">>,
                             "Failed to fetch recent activities")
                ELSE Handled(route, req, ctx, 200, <<"application.find">>,
                             Limit(SortByAppliedAtDesc(found), limitNum))
     /\ UNCHANGED <<store, now, inflight>>

\* GET /application/recent as Express dispatches it: routes are tried in
\* registration order, and /application/:id, registered first, matches the
\* path with id = "recent", which new ObjectId rejects (the id 0 stands for
\* it); that handler ends the request, so the handler above is not reached
DispatchRecent(req) == GetApplicationById([req EXCEPT !.params = [id |-> 0]])

GetMyApplications(req) ==
  LET route == "GET /my-application"
      ctx == RunChain(route, req)
  IN /\ Accepting
     /\ last' = IF ~ctx.next THEN Rejected(route, req, ctx)
                ELSE Handled(route, req, ctx, 200, <<"application.find">>, applications)
     /\ UNCHANGED <<store, now, inflight>>

GetManageApplications(req) ==
  LET route == "GET /manage-application/:email"
      ctx == RunChain(route, req)
  IN /\ Accepting
     /\ last' = IF ~ctx.next THEN Rejected(route, req, ctx)
                ELSE Handled(route, req, ctx, 200, <<"application.find">>, applications)
     /\ UNCHANGED <<store, now, inflight>>

\* updateOne({ _id }, { $set: upd }) on the application collection
UpdateApplication(route, req, upd, body) ==
  LET ctx == RunChain(route, req)
      id == req.params.id
  IN /\ Accepting
     /\ last' \in ThrowsOr(route, req, ctx, id,
                           Handled(route, req, ctx, 200, <<"application.updateOne">>, body))
     /\ IF Proceeds(ctx, id)
        THEN applications' \in UpdateOne(applications, ById(applications, id), upd)
        ELSE UNCHANGED applications
     /\ UNCHANGED <<users, scholarships, reviews, ids, now, inflight>>

PatchApplication(req) == UpdateApplication("PATCH /application/:id", req, req.body, "result")

PatchApplicationStatus(req) ==
  UpdateApplication("PATCH /application/:id/status", req,
                    [applicationStatus |-> Field(req.body, "status"), updatedAt |-> Timestamp],
                    "success")

PatchApplicationFeedback(req) ==
  UpdateApplication("PATCH /application/:id/feedback", req,
                    [feedback |-> Field(req.body, "feedback"), updatedAt |-> Timestamp],
                    "success")

DeleteApplication(req) ==
  LET route == "DELETE /application/:id"
      ctx == RunChain(route, req)
      id == req.params.id
  IN /\ Accepting
     /\ last' \in ThrowsOr(route, req, ctx, id,
                           Handled(route, req, ctx, 200, <<"application.deleteOne">>, "result"))
     /\ IF Proceeds(ctx, id)
        THEN applications' = applications \ ById(applications, id)
        ELSE UNCHANGED applications
     /\ UNCHANGED <<users, scholarships, reviews, ids, now, inflight>>

(***************************************************************************)
(* Dashboard stats: three awaited reads inside one try/catch.              *)
(***************************************************************************)
\* user && user.role === "admin"
IsAdminOnly(found) ==
  {Has(user, "role") /\ user.role = "admin" : user \in found}
    \cup (IF found = {} THEN {FALSE} ELSE {})

\* user && (user.role === "admin" || user.role === "moderator")
IsAdminOrModerator(found) ==
  {Has(user, "role") /\ user.role \in {"admin", "moderator"} : user \in found}
    \cup (IF found = {} THEN {FALSE} ELSE {})

\* the $match of the stats: {} or { userEmail: email }
DashboardMatch(r) ==
  IF r.loc.scoped THEN ByUserEmail(applications, r.loc.email) ELSE applications

CountStatus(coll, st) ==
  Cardinality({d \in coll : Has(d, "applicationStatus") /\ d.applicationStatus = st})

DashboardStatus(s, req) ==
  LET route == "GET /application/dashboard/status"
      ctx == RunChain(route, req)
      email == QueryEmail(req.query)
  IN /\ Settled
     /\ NewSlot(s)
     /\ IF ~ctx.next
        THEN last' = Rejected(route, req, ctx) /\ UNCHANGED inflight
        ELSE \E isAdminOrModerator \in IsAdminOrModerator(ByEmail(users, email)) :
               LET r == InFlight(route, req, ctx, "dashboard:count", <<"users.findOne">>,
                                 [email |-> email,
                                  scoped |-> ~isAdminOrModerator /\ email # <<>>,
                                  total |-> 0])
               IN inflight' = [inflight EXCEPT ![s] = r] /\ last' = Stepped(r)
     /\ UNCHANGED <<store, now>>

DashboardCount(s) ==
  LET r == inflight[s]
      q == [r EXCEPT !.pc = "dashboard:aggregate",
                     !.ops = Append(r.ops, "application.countDocuments"),
                     !.loc.total = Cardinality(DashboardMatch(r))]
  IN /\ Settled
     /\ r.pc = "dashboard:count"
     /\ inflight' = [inflight EXCEPT ![s] = q]
     /\ last' = Stepped(q)
     /\ UNCHANGED <<store, now>>

DashboardAggregate(s) ==
  LET r == inflight[s]
      m == DashboardMatch(r)
  IN /\ Settled
     /\ r.pc = "dashboard:aggregate"
     /\ inflight' = [inflight EXCEPT ![s] = Idle]
     /\ last' = Handled(r.route, r.req, r.ctx, 200, Append(r.ops, "application.aggregate"),
                        [totalApplications |-> r.loc.total,
                         pending |-> CountStatus(m, "pending"),
                         processing |-> CountStatus(m, "processing"),
                         completed |-> CountStatus(m, "completed"),
                         rejected |-> CountStatus(m, "rejected")])
     /\ UNCHANGED <<store, now>>

(***************************************************************************)
(* Review routes.                                                          *)
(***************************************************************************)
SortByReviewDateDesc(coll) == SortEntries({[k |-> 0 - d.reviewDate, d |-> d] : d \in coll})

GetReviews(req) ==
  LET route == "GET /reviews"
      ctx == RunChain(route, req)
  IN /\ Accepting
     /\ last' = IF ~ctx.next THEN Rejected(route, req, ctx)
                ELSE Handled(route, req, ctx, 200, <<"reviews.find">>,
                             SortByReviewDateDesc(reviews))
     /\ UNCHANGED <<store, now, inflight>>

GetReviewsByScholarship(req) ==
  LET route == "GET /reviews/scholarship/:scholarshipId"
      ctx == RunChain(route, req)
  IN /\ Accepting
     /\ last' = IF ~ctx.next THEN Rejected(route, req, ctx)
                ELSE Handled(route, req, ctx, 200, <<"reviews.find">>,
                             SortByReviewDateDesc(
                               {d \in reviews : d.scholarshipId = req.params.scholarshipId}))
     /\ UNCHANGED <<store, now, inflight>>

GetReviewsByUser(req) ==
  LET route == "GET /reviews/user/:email"
      ctx == RunChain(route, req)
  IN /\ Accepting
     /\ last' = IF ~ctx.next THEN Rejected(route, req, ctx)
                ELSE Handled(route, req, ctx, 200, <<"reviews.find">>,
                             {d \in reviews : d.userEmail = req.params.email})
     /\ UNCHANGED <<store, now, inflight>>

RECURSIVE TrimLeft(_)
TrimLeft(str) == IF str # <<>> /\ Head(str) = " " THEN TrimLeft(Tail(str)) ELSE str

RECURSIVE TrimRight(_)
TrimRight(str) ==
  IF str # <<>> /\ str[Len(str)] = " " THEN TrimRight(SubSeq(str, 1, Len(str) - 1)) ELSE str

\* comment.trim()
trim(str) == TrimRight(TrimLeft(str))

\* application.applicantEmail || application.userEmail; <<>> when neither is set
ApplicantEmail(application) ==
  IF Has(application, "applicantEmail") /\ application.applicantEmail # <<>>
  THEN application.applicantEmail
  ELSE IF Has(application, "userEmail") THEN application.userEmail ELSE <<>>

\* application.scholarshipId; -1 when the application has none
ScholarshipIdOf(application) ==
  IF Has(application, "scholarshipId") THEN application.scholarshipId ELSE -1

\* a look-up of the pair that never finds a review
ReviewsOfMisses(scholarshipId, userEmail) == {}

\* findOne({ scholarshipId, userEmail }) on the reviews
ReviewsOf(scholarshipId, userEmail) ==
  {d \in reviews : d.scholarshipId = scholarshipId /\ d.userEmail = userEmail}

\* review submissions in flight that may still insert a review
PendingReviewInserts ==
  Cardinality({s \in Slots :
     \/ inflight[s].pc \in {"review:scholarship", "review:existing"}
     \/ inflight[s].pc = "review:write" /\ inflight[s].loc.existingReview = {}})

\* the handler's end when it throws: it has no try/catch
Throws(s, r) ==
  /\ \E st \in UnhandledRejection : last' = Handled(r.route, r.req, r.ctx, st, r.ops, "threw")
  /\ inflight' = [inflight EXCEPT ![s] = Idle]
  /\ UNCHANGED <<store, now>>

Continues(s, q) ==
  /\ inflight' = [inflight EXCEPT ![s] = q]
  /\ last' = Stepped(q)
  /\ UNCHANGED <<store, now>>

\* PATCH /application/:id/review up to the end of its first findOne
SubmitReview(s, req) ==
  LET route == "PATCH /application/:id/review"
      ctx == RunChain(route, req)
      id == req.params.id
      found == ById(applications, id)
      r == InFlight(route, req, ctx, "review:scholarship", <<"application.findOne">>,
                    [application |-> found, scholarship |-> {}, existingReview |-> {}])
  IN /\ Settled
     /\ NewSlot(s)
     /\ IF ~Proceeds(ctx, id)
        THEN /\ last' \in ThrowsOr(route, req, ctx, id, Rejected(route, req, ctx))
             /\ UNCHANGED inflight
        ELSE /\ \/ ids.reviews + PendingReviewInserts < MaxReviews
                \/ \E a \in found : ReviewsOf(ScholarshipIdOf(a), ApplicantEmail(a)) # {}
             /\ inflight' = [inflight EXCEPT ![s] = r]
             /\ last' = Stepped(r)
     /\ UNCHANGED <<store, now>>

\* new ObjectId(application.scholarshipId) and the scholarship's findOne
ReviewFindScholarship(s) ==
  LET r == inflight[s]
  IN /\ Settled
     /\ r.pc = "review:scholarship"
     /\ IF r.loc.application = {} THEN Throws(s, r)
        ELSE LET application == CHOOSE a \in r.loc.application : TRUE
                 sid == ScholarshipIdOf(application)
             IN IF Has(application, "scholarshipId") /\ ~ValidObjectId(sid) THEN Throws(s, r)
                ELSE Continues(s, [r EXCEPT !.pc = "review:existing",
                                            !.ops = Append(r.ops, "scholarships.findOne"),
                                            !.loc.scholarship = ById(scholarships, sid)])

\* the look-up of an existing review of the pair
ReviewFindExisting(s) ==
  LET r == inflight[s]
      application == CHOOSE a \in r.loc.application : TRUE
      found == ReviewsOf(ScholarshipIdOf(application), ApplicantEmail(application))
  IN /\ Settled
     /\ r.pc = "review:existing"
     /\ \E existingReview \in (IF found = {} THEN {{}} ELSE {{d._id} : d \in found}) :
          /\ existingReview # {} \/ ids.reviews + PendingReviewInserts <= MaxReviews
          /\ Continues(s, [r EXCEPT !.pc = "review:write",
                                    !.ops = Append(r.ops, "reviews.findOne"),
                                    !.loc.existingReview = existingReview])

ReviewData(application, scholarship, body) ==
  [scholarshipId |-> ScholarshipIdOf(application),
   scholarshipName |-> Field(scholarship, "scholarshipName"),
   universityName |-> Field(scholarship, "universityName"),
   userEmail |-> ApplicantEmail(application),
   userName |-> IF Truthy(application, "applicantName") THEN application.applicantName
                ELSE IF Truthy(application, "userName") THEN application.userName
                ELSE "Anonymous User",
   userPhoto |-> IF Truthy(application, "applicantPhoto") THEN application.applicantPhoto
                 ELSE IF Truthy(application, "userPhoto") THEN application.userPhoto
                 ELSE Null,
   ratingPoint |-> IF Has(body, "rating") THEN parseInt(body.rating) ELSE NaN,
   reviewComment |-> trim(body.comment),
   reviewDate |-> Timestamp]

\* reviewData is built, then the review is updated in place or inserted
ReviewWrite(s) ==
  LET r == inflight[s]
      application == CHOOSE a \in r.loc.application : TRUE
  IN /\ Settled
     /\ r.pc = "review:write"
     /\ IF r.loc.scholarship = {} \/ ~Has(r.req.body, "comment") THEN Throws(s, r)
        ELSE LET scholarship == CHOOSE d \in r.loc.scholarship : TRUE
                 reviewData == ReviewData(application, scholarship, r.req.body)
             IN /\ IF r.loc.existingReview # {}
                   THEN /\ reviews' \in UpdateOne(reviews,
                                          {d \in reviews : d._id \in r.loc.existingReview},
                                          reviewData)
                        /\ ids' = ids
                        /\ inflight' = [inflight EXCEPT ![s] =
                              [r EXCEPT !.pc = "review:flag",
                                        !.ops = Append(r.ops, "reviews.updateOne")]]
                   ELSE /\ reviews' = InsertOne(reviews, reviewData, ids.reviews + 1)
                        /\ ids' = [ids EXCEPT !.reviews = @ + 1]
                        /\ inflight' = [inflight EXCEPT ![s] =
                              [r EXCEPT !.pc = "review:flag",
                                        !.ops = Append(r.ops, "reviews.insertOne")]]
                /\ last' = Stepped(inflight'[s])
                /\ UNCHANGED <<users, scholarships, applications, now>>

\* the request is answered without the write of the reviewed flag
ReviewFlagSkipped(s) ==
  LET r == inflight[s]
  IN /\ Settled
     /\ r.pc = "review:flag"
     /\ inflight' = [inflight EXCEPT ![s] = Idle]
     /\ last' = Handled(r.route, r.req, r.ctx, 200, r.ops, "success")
     /\ UNCHANGED <<store, now>>

\* the application is marked reviewed and the request is answered
ReviewFlag(s) ==
  LET r == inflight[s]
  IN /\ Settled
     /\ r.pc = "review:flag"
     /\ applications' \in UpdateOne(applications, ById(applications, r.req.params.id),
                                    [reviewed |-> TRUE])
     /\ inflight' = [inflight EXCEPT ![s] = Idle]
     /\ last' = Handled(r.route, r.req, r.ctx, 200, Append(r.ops, "application.updateOne"),
                        "success")
     /\ UNCHANGED <<users, scholarships, reviews, ids, now>>

\* the bodies of this route carry both reviewComment and ratingPoint
PatchReview(req) ==
  LET route == "PATCH /reviews/:id"
      ctx == RunChain(route, req)
      id == req.params.id
  IN /\ Accepting
     /\ last' \in ThrowsOr(route, req, ctx, id,
                           Handled(route, req, ctx, 200, <<"reviews.updateOne">>, "result"))
     /\ IF Proceeds(ctx, id)
        THEN reviews' \in UpdateOne(reviews, ById(reviews, id),
                                    [reviewComment |-> req.body.reviewComment,
                                     ratingPoint |-> req.body.ratingPoint,
                                     reviewDate |-> Timestamp])
        ELSE UNCHANGED reviews
     /\ UNCHANGED <<users, scholarships, applications, ids, now, inflight>>

DeleteReview(req) ==
  LET route == "DELETE /reviews/:id"
      ctx == RunChain(route, req)
      id == req.params.id
  IN /\ Accepting
     /\ last' \in ThrowsOr(route, req, ctx, id,
                           Handled(route, req, ctx, 200, <<"reviews.deleteOne">>, "result"))
     /\ IF Proceeds(ctx, id)
        THEN reviews' = reviews \ ById(reviews, id)
        ELSE UNCHANGED reviews
     /\ UNCHANGED <<users, scholarships, applications, ids, now, inflight>>

(***************************************************************************)
(* Requests.                                                               *)
(***************************************************************************)
Roles == {"student", "moderator", "admin"}

Token(sig, role) == [sig |-> sig, payload |-> [role |-> role]]

Bearer(role) == <<"Bearer", Token("good", role)>>

\* no header, a header without a token, a token that fails verification,
\* and a verified token of each role
AuthHeaders == {<<>>, <<"Bearer">>, <<"Bearer", Token("bad", "admin")>>}
                 \cup {Bearer(role) : role \in Roles}

Req(authorization, params, query, body) ==
  [headers |-> [authorization |-> authorization], params |-> params, query |-> query,
   body |-> body]

None == <<>>

Init ==
  /\ users = {}
  /\ scholarships = {}
  /\ applications = {}
  /\ reviews = {}
  /\ ids = [users |-> 0, scholarships |-> 0, applications |-> 0, reviews |-> 0]
  /\ now = 0
  /\ inflight = [s \in 1..1 |-> Idle]
  /\ last = NoStep

\* time passes
Tick ==
  /\ now < MaxClock
  /\ now' = now + 1
  /\ UNCHANGED <<store, inflight, last>>

\* the step taken has been observed; `last' is cleared before the next step, which
\* leaves the steps and their order as they are
Settle ==
  /\ last.kind # "none"
  /\ last' = NoStep
  /\ UNCHANGED <<store, now, inflight>>

\* the awaited calls of the handlers in flight return
Resume ==
  \/ \E s \in Slots : PostUsersWrite(s)
  \/ \E s \in Slots : DashboardCount(s)
  \/ \E s \in Slots : DashboardAggregate(s)
  \/ \E s \in Slots : ReviewFindScholarship(s)
  \/ \E s \in Slots : ReviewFindExisting(s)
  \/ \E s \in Slots : ReviewWrite(s)
  \/ \E s \in Slots : ReviewFlag(s)

(***************************************************************************)
(* Spec: every route, one request at a time (Init gives the server one    *)
(* slot).                                                                  *)
(***************************************************************************)
IdParams == {[id |-> i] : i \in 0..2}
EmailParams == {[email |-> <<"a">>], [email |-> <<"A">>]}
UserBodies == {[email |-> <<"A">>, name |-> "n", photoURL |-> "p"], [name |-> "n"]}
RoleBodies == {[role |-> "admin"]}
ProfileBodies == {[displayName |-> "m"]}
ScholarshipBodies == {[scholarshipName |-> "s", applicationFees |-> 10]}
ApplicationBodies == {[scholarshipId |-> 1, userEmail |-> <<"a">>]}
ApplicationPatches == {[applicationStatus |-> "completed"], [feedback |-> "good"]}
StatusBodies == {[status |-> "processing"]}
FeedbackBodies == {[feedback |-> "fine"]}
ReviewBodies == {[rating |-> <<"5">>, comment |-> <<" ", "g">>]}
ReviewPatches == {[reviewComment |-> <<"h">>, ratingPoint |-> 3]}
RecentQueries == {[email |-> <<"a">>], [email |-> <<"a">>, limit |-> <<"2">>]}
TopQueries == {None, [limit |-> <<"1">>]}
DashboardQueries == {None, [email |-> <<"a">>]}

UserRequests ==
  \E h \in AuthHeaders :
    \/ GetUsers(Req(h, None, None, None))
    \/ \E p \in EmailParams : GetUserByEmail(Req(h, p, None, None))
    \/ \E p \in EmailParams \cup {[email |-> <<"b">>]} : GetUserRole(Req(h, p, None, None))
    \/ \E s \in Slots, b \in UserBodies : PostUsers(s, Req(h, None, None, b))
    \/ \E p \in EmailParams, b \in ProfileBodies : PatchUserProfile(Req(h, p, None, b))
    \/ \E p \in IdParams, b \in RoleBodies : PatchUserRole(Req(h, p, None, b))
    \/ \E p \in IdParams : DeleteUser(Req(h, p, None, None))

ScholarshipRequests ==
  \E h \in AuthHeaders :
    \/ GetScholarships(Req(h, None, None, None))
    \/ \E q \in TopQueries : GetTopScholarships(Req(h, None, q, None))
    \/ \E p \in IdParams : GetScholarshipById(Req(h, p, None, None))
    \/ \E b \in ScholarshipBodies : PostScholarship(Req(h, None, None, b))
    \/ \E p \in IdParams, b \in ScholarshipBodies : PatchScholarship(Req(h, p, None, b))
    \/ \E p \in IdParams : DeleteScholarship(Req(h, p, None, None))

ApplicationRequests ==
  \E h \in AuthHeaders :
    \/ GetApplications(Req(h, None, None, None))
    \/ \E b \in ApplicationBodies : PostApplication(Req(h, None, None, b))
    \/ \E p \in IdParams : GetApplicationById(Req(h, p, None, None))
    \/ \E p \in EmailParams : GetApplicationsByUser(Req(h, p, None, None))
    \/ \E q \in RecentQueries : DispatchRecent(Req(h, None, q, None))
    \/ GetMyApplications(Req(h, None, None, None))
    \/ \E p \in EmailParams : GetManageApplications(Req(h, p, None, None))
    \/ \E p \in IdParams, b \in ApplicationPatches : PatchApplication(Req(h, p, None, b))
    \/ \E p \in IdParams, b \in StatusBodies : PatchApplicationStatus(Req(h, p, None, b))
    \/ \E p \in IdParams, b \in FeedbackBodies : PatchApplicationFeedback(Req(h, p, None, b))
    \/ \E p \in IdParams : DeleteApplication(Req(h, p, None, None))
    \/ \E s \in Slots, q \in DashboardQueries : DashboardStatus(s, Req(h, None, q, None))

ReviewRequests ==
  \E h \in AuthHeaders :
    \/ GetReviews(Req(h, None, None, None))
    \/ \E i \in 1..2 : GetReviewsByScholarship(Req(h, [scholarshipId |-> i], None, None))
    \/ \E p \in EmailParams : GetReviewsByUser(Req(h, p, None, None))
    \/ \E s \in Slots, p \in IdParams, b \in ReviewBodies : SubmitReview(s, Req(h, p, None, b))
    \/ \E p \in IdParams, b \in ReviewPatches : PatchReview(Req(h, p, None, b))
    \/ \E p \in IdParams : DeleteReview(Req(h, p, None, None))

Receive == UserRequests \/ ScholarshipRequests \/ ApplicationRequests \/ ReviewRequests

Next == Receive \/ Resume \/ Settle

Spec == Init /\ [][Next]_vars

(***************************************************************************)
(* What the steps show.                                                    *)
(***************************************************************************)
Range(f) == {f[i] : i \in DOMAIN f}

HandlerRan == "handler" \in Range(last.trace)

\* the role of the verified token a request bears; Null when it bears none
BearerRole(req) ==
  LET h == req.headers.authorization
  IN IF h # <<>> /\ ~jwtVerify(HeaderToken(h)).err
     THEN jwtVerify(HeaderToken(h)).decoded.role ELSE Null

\* the routes the specification designates admin-only and moderator-only
AdminOnly ==
  {"GET /users", "PATCH /users/:id/role", "DELETE /users/:id", "POST /scholarships",
   "PATCH /scholarships/:id", "DELETE /scholarships/:id", "GET /application/dashboard/status"}

ModeratorOnly ==
  {"GET /manage-application/:email", "PATCH /application/:id/status",
   "PATCH /application/:id/feedback"}

RequiredRole(route) == IF route \in AdminOnly THEN "admin" ELSE "moderator"

WellFormedId(req) == ~Has(req.params, "id") \/ ValidObjectId(req.params.id)

\* C1: on every admin-only or moderator-only route, a request bearing a valid
\* token of role "student" is answered 403 and makes no store call, and the
\* same request bearing a valid token of the required role reaches the
\* handler and is answered 200.
C1_GuardEnforcement ==
  (last.kind # "none" /\ last.route \in AdminOnly \cup ModeratorOnly) =>
    /\ BearerRole(last.req) = "student" =>
         last.kind = "response" /\ last.status = 403 /\ last.ops = <<>>
    /\ (BearerRole(last.req) = RequiredRole(last.route) /\ last.kind = "response"
        /\ WellFormedId(last.req)) =>
         HandlerRan /\ last.status = 200

\* C2: applicationStatus and feedback of a stored application change only in
\* a step of a request whose caller has the moderator role.
C2_ModeratorOnlyStatus ==
  [][\A a \in applications : \A b \in applications' :
       (a._id = b._id /\ (Field(a, "applicationStatus") # Field(b, "applicationStatus")
                          \/ Field(a, "feedback") # Field(b, "feedback")))
         => last'.user.role = "moderator"]_vars

C9_RoleDefault ==
  [][(last'.kind = "response" /\ last'.route = "GET /users/role/:email"
      /\ "handler" \in Range(last'.trace)) =>
       LET found == ByEmail(users, toLowerCase(last'.req.params.email))
       IN /\ users' = users
          /\ last'.status = 200
          /\ found = {} => last'.body.role = "student"
          /\ found # {} =>
               \E user \in found :
                 last'.body.role = IF Truthy(user, "role") THEN user.role ELSE "student"]_vars

C9_Witness ==
  /\ last.kind = "response" /\ last.route = "GET /users/role/:email" /\ HandlerRan
  /\ last.status = 200 /\ last.body.role = "student"
  /\ users # {} /\ ByEmail(users, toLowerCase(last.req.params.email)) = {}

(***************************************************************************)
(* SpecConc: the server handles MaxInflight requests at once.  The steps   *)
(* of the handlers in flight interleave at their awaits.                   *)
(***************************************************************************)
InitConc ==
  /\ users = {}
  /\ scholarships = {}
  /\ applications = {}
  /\ reviews = {}
  /\ ids = [users |-> 0, scholarships |-> 0, applications |-> 0, reviews |-> 0]
  /\ now = 0
  /\ inflight = [s \in 1..MaxInflight |-> Idle]
  /\ last = NoStep

ConcUserBodies == {[email |-> <<"A">>, name |-> "n", photoURL |-> "p"],
                   [email |-> <<"a">>, name |-> "m", photoURL |-> "q"]}
ConcReviewBodies == {[rating |-> <<"5">>, comment |-> <<"g">>],
                     [rating |-> <<"2">>, comment |-> <<"h">>]}

ConcReceive ==
  \/ \E s \in Slots, b \in ConcUserBodies : PostUsers(s, Req(Bearer("student"), None, None, b))
  \/ \E b \in ScholarshipBodies : PostScholarship(Req(Bearer("admin"), None, None, b))
  \/ \E b \in ApplicationBodies : PostApplication(Req(Bearer("student"), None, None, b))
  \/ \E s \in Slots, b \in ConcReviewBodies :
       SubmitReview(s, Req(Bearer("student"), [id |-> 1], None, b))

ConcResume ==
  \/ \E s \in Slots : PostUsersWrite(s)
  \/ \E s \in Slots : ReviewFindScholarship(s)
  \/ \E s \in Slots : ReviewFindExisting(s)
  \/ \E s \in Slots : ReviewWrite(s)
  \/ \E s \in Slots : ReviewFlag(s)

NextConc == ConcReceive \/ ConcResume \/ Settle

SpecConc == InitConc /\ [][NextConc]_vars

\* C3: the users collection holds at most one document per lowercased email.
C3_UniqueEmail ==
  \A u, v \in users : toLowerCase(u.email) = toLowerCase(v.email) => u = v

\* C5: the reviews collection holds at most one document for each
\* (scholarshipId, userEmail) pair.
C5_OneReviewPerPair ==
  \A r1, r2 \in reviews :
    (r1.scholarshipId = r2.scholarshipId /\ r1.userEmail = r2.userEmail) => r1 = r2

(***************************************************************************)
(* SpecIndex: POST /users as src/index.js registers it, without            *)
(* middleware, one request at a time.                                      *)
(***************************************************************************)
\* the filter { email: user.email }: an undefined value is sent as null, which
\* matches the documents that have no email
ByRawEmail(coll, user) ==
  {d \in coll : /\ Has(d, "email") = Has(user, "email")
                /\ Has(user, "email") => d.email = user.email}

\* POST /users of index.js up to the end of its findOne
PostUsersIndex(s, req) ==
  LET route == "POST /users"
      user == req.body
      existingUser == ByRawEmail(users, user) # {}
      r == InFlight(route, req, NewCtx, "index POST /users:write", <<"users.findOne">>,
                    [existingUser |-> existingUser])
  IN /\ Settled
     /\ NewSlot(s)
     /\ existingUser \/ ids.users < MaxUsers
     /\ inflight' = [inflight EXCEPT ![s] = r]
     /\ last' = Stepped(r)
     /\ UNCHANGED <<store, now>>

\* { ...user, role: user.role || "student", createdAt }
NewUserIndex(user) ==
  SetFields(user, [role |-> IF Truthy(user, "role") THEN user.role ELSE "student",
                   createdAt |-> Timestamp])

\* POST /users of index.js from its findOne on
PostUsersIndexWrite(s) ==
  LET r == inflight[s]
      user == r.req.body
  IN /\ Settled
     /\ r.pc = "index POST /users:write"
     /\ IF r.loc.existingUser
        THEN /\ users' \in UpdateOne(users, ByRawEmail(users, user),
                                     [name |-> Field(user, "name"),
                                      photoURL |-> Field(user, "photoURL"),
                                      updatedAt |-> Timestamp])
             /\ ids' = ids
             /\ last' = Handled(r.route, r.req, r.ctx, 200,
                                Append(r.ops, "users.updateOne"), "User updated")
        ELSE /\ users' = InsertOne(users, NewUserIndex(user), ids.users + 1)
             /\ ids' = [ids EXCEPT !.users = @ + 1]
             /\ last' = Handled(r.route, r.req, r.ctx, 200,
                                Append(r.ops, "users.insertOne"), "User created")
     /\ inflight' = [inflight EXCEPT ![s] = Idle]
     /\ UNCHANGED <<scholarships, applications, reviews, now>>

IndexUserBodies ==
  {[email |-> e, name |-> n, photoURL |-> "p"] : e \in {<<"A">>, <<"a">>}, n \in {"n", "m"}}
    \cup {[email |-> <<"a">>, name |-> "n", photoURL |-> "p", role |-> "admin"],
          [name |-> "n"]}

NextIndex ==
  \/ \E s \in Slots, b \in IndexUserBodies : PostUsersIndex(s, Req(<<>>, None, None, b))
  \/ \E s \in Slots : PostUsersIndexWrite(s)
  \/ Tick
  \/ Settle

SpecIndex == Init /\ [][NextIndex]_vars

\* the fields a repeated POST /users may change
UpsertFields == {"name", "photoURL", "updatedAt"}

\* C4: after a POST /users that is answered 200, exactly one user is stored
\* under the payload's email in any casing, its key is the lowercased email,
\* and a user stored under it before differs from it in name, photoURL and
\* updatedAt only.
C4_UpsertIdempotence ==
  [][(last'.kind = "response" /\ last'.route = "POST /users" /\ last'.status = 200
      /\ Has(last'.req.body, "email")) =>
       LET email == toLowerCase(last'.req.body.email)
           before == {u \in users : Has(u, "email") /\ toLowerCase(u.email) = email}
           after == {u \in users' : Has(u, "email") /\ toLowerCase(u.email) = email}
       IN /\ Cardinality(after) = 1
          /\ \A v \in after : v.email = email
          /\ \A u \in before : \A v \in after :
               /\ DOMAIN v \subseteq DOMAIN u \cup UpsertFields
               /\ \A f \in DOMAIN u \ UpsertFields : f \in DOMAIN v /\ v[f] = u[f]]_vars

(***************************************************************************)
(* SpecReview: review submissions, one request at a time.                  *)
(***************************************************************************)
SubmitBodies == {[rating |-> <<"5">>, comment |-> <<" ", "g">>],
                 [rating |-> <<"2">>, comment |-> <<"h", " ">>],
                 [rating |-> <<"x">>, comment |-> <<"g">>],
                 [rating |-> <<"4">>]}

ReviewReceive ==
  \/ \E b \in ScholarshipBodies : PostScholarship(Req(Bearer("admin"), None, None, b))
  \/ \E p \in IdParams : DeleteScholarship(Req(Bearer("admin"), p, None, None))
  \/ \E b \in ApplicationBodies : PostApplication(Req(Bearer("student"), None, None, b))
  \/ \E s \in Slots, h \in {<<>>, Bearer("student")}, p \in IdParams, b \in SubmitBodies :
       SubmitReview(s, Req(h, p, None, b))
  \/ \E p \in IdParams, b \in ReviewPatches : PatchReview(Req(Bearer("student"), p, None, b))
  \/ \E p \in IdParams : DeleteReview(Req(Bearer("student"), p, None, None))

ReviewResume ==
  \/ \E s \in Slots : ReviewFindScholarship(s)
  \/ \E s \in Slots : ReviewFindExisting(s)
  \/ \E s \in Slots : ReviewWrite(s)
  \/ \E s \in Slots : ReviewFlag(s)

NextReview == ReviewReceive \/ ReviewResume \/ Tick \/ Settle

SpecReview == Init /\ [][NextReview]_vars

\* a review submission has just been answered 200
ReviewAnswered ==
  /\ last.kind = "response" /\ last.route = "PATCH /application/:id/review"
  /\ last.status = 200 /\ HandlerRan

\* C6: when a review submission is answered, the first for its pair or a
\* later one, exactly one review is stored for the (scholarshipId, userEmail)
\* pair of its application, that review carries the rating and the comment of
\* the submission just answered, and the application is flagged reviewed.
C6_ReviewUpsert ==
  ReviewAnswered =>
    \E a \in applications :
      /\ a._id = last.req.params.id
      /\ Has(a, "reviewed") /\ a.reviewed = TRUE
      /\ LET pair == {r \in reviews : /\ r.scholarshipId = a.scholarshipId
                                      /\ r.userEmail = a.userEmail}
         IN /\ Cardinality(pair) = 1
            /\ \A r \in pair : /\ r.ratingPoint = parseInt(last.req.body.rating)
                               /\ r.reviewComment = trim(last.req.body.comment)

\* the second submission for a pair is answered: it took the update path and
\* the one review of the pair has its rating and comment
C6_Witness ==
  /\ ReviewAnswered
  /\ "reviews.updateOne" \in Range(last.ops)
  /\ last.req.body.rating = <<"2">>
  /\ \E r \in reviews : r._id = 1 /\ r.ratingPoint = 2 /\ r.reviewComment = <<"h">>
  /\ Cardinality(reviews) = 1

(***************************************************************************)
(* SpecRecent: the handler of GET /application/recent over stores of up to *)
(* MaxStored applications.                                                 *)
(***************************************************************************)
MaxStored == 104

\* the applications 1..n: every fiftieth is of user b, the others of user a,
\* and the appliedAt times repeat
StoredApplications(n) ==
  {[_id |-> i, userEmail |-> IF i % 50 = 0 THEN <<"b">> ELSE <<"a">>,
    appliedAt |-> (i * 7) % 40, applicationStatus |-> "pending"] : i \in 1..n}

RecentSizes == 0..7 \cup {MaxStored - 1, MaxStored}

InitRecent ==
  /\ users = {}
  /\ scholarships = {}
  /\ \E n \in RecentSizes : applications = StoredApplications(n)
  /\ reviews = {}
  /\ ids = [users |-> 0, scholarships |-> 0, applications |-> Cardinality(applications),
            reviews |-> 0]
  /\ now = 0
  /\ inflight = [s \in 1..1 |-> Idle]
  /\ last = NoStep

RecentLimits == {<<>>, <<"0">>, <<"-", "5">>, <<"a", "b", "c">>, <<"5", "0", "0">>,
                 <<"3">>, <<"1", "0", "0">>}

RecentRequests ==
  {[email |-> e] : e \in {<<"a">>, <<"b">>}}
    \cup {[email |-> <<"a">>, limit |-> l] : l \in RecentLimits}

NextRecent ==
  \/ \E h \in {<<>>, Bearer("student")}, q \in RecentRequests :
       GetRecentApplications(Req(h, None, q, None))
  \/ \E h \in {<<>>, Bearer("student")}, p \in EmailParams :
       GetApplicationsByUser(Req(h, p, None, None))
  \/ Settle

SpecRecent == InitRecent /\ [][NextRecent]_vars

\* C7: the records GET /application/recent answers with are at most 100
\* for every limit parameter and at most 5 when it is absent, all of them
\* have the userEmail asked for, and they are in descending appliedAt order.
C7_RecentCap ==
  (last.kind = "response" /\ last.route = "GET /application/recent" /\ HandlerRan
   /\ last.status = 200) =>
    /\ Len(last.body) <= RecentCap
    /\ ~Has(last.req.query, "limit") => Len(last.body) <= RecentDefault
    /\ \A i \in 1..Len(last.body) : last.body[i].userEmail = last.req.query.email
    /\ \A i \in 1..(Len(last.body) - 1) : last.body[i].appliedAt >= last.body[i + 1].appliedAt

(***************************************************************************)
(* SpecTop: GET /scholarships/top over stores of up to MaxTop scholarships.*)
(***************************************************************************)
MaxTop == 8

\* the scholarships 1..n with fees that repeat, in an order set by p
StoredScholarships(n, p) ==
  {[_id |-> i, scholarshipName |-> "s", applicationFees |-> ((i * p) % 5) * 10] : i \in 1..n}

InitTop ==
  /\ users = {}
  /\ \E n \in 0..MaxTop, p \in {2, 3} : scholarships = StoredScholarships(n, p)
  /\ applications = {}
  /\ reviews = {}
  /\ ids = [users |-> 0, scholarships |-> Cardinality(scholarships), applications |-> 0,
            reviews |-> 0]
  /\ now = 0
  /\ inflight = [s \in 1..1 |-> Idle]
  /\ last = NoStep

TopLimits == {<<"0">>, <<"a">>, <<"2">>, <<"3", "x">>, <<"7">>, <<" ", "4">>, <<"-", "3">>,
              <<"1", "2">>}

NextTop ==
  \/ \E q \in {None} \cup {[limit |-> l] : l \in TopLimits} :
       GetTopScholarships(Req(<<>>, None, q, None))
  \/ GetScholarships(Req(<<>>, None, None, None))
  \/ Settle

SpecTop == InitTop /\ [][NextTop]_vars

\* C8: GET /scholarships/top answers with stored scholarships in
\* non-decreasing applicationFees order, none of them dearer than a
\* scholarship left out; for a limit that parses to L > 0 they are L, or all
\* when fewer are stored, and for no limit, or one that parses to 0 or to no
\* number, they are 6, or all when fewer are stored.
C8_TopScholarships ==
  (last.kind = "response" /\ last.route = "GET /scholarships/top" /\ HandlerRan) =>
    LET body == last.body
        stored == Cardinality(scholarships)
        L == IF Has(last.req.query, "limit") THEN parseInt(last.req.query.limit) ELSE NaN
    IN /\ last.status = 200
       /\ Range(body) \subseteq scholarships
       /\ Cardinality(Range(body)) = Len(body)
       /\ \A i \in 1..(Len(body) - 1) : body[i].applicationFees <= body[i + 1].applicationFees
       /\ \A d \in scholarships \ Range(body) :
            \A i \in 1..Len(body) : body[i].applicationFees <= d.applicationFees
       /\ L > 0 => Len(body) = IF L < stored THEN L ELSE stored
       /\ L \in {0, NaN} => Len(body) = IF TopDefault < stored THEN TopDefault ELSE stored

\* more scholarships are stored than the limit asked for, and than the default
C8_Witness ==
  /\ last.kind = "response" /\ last.route = "GET /scholarships/top" /\ HandlerRan
  /\ Cardinality(scholarships) = MaxTop
  /\ last.req.query = [limit |-> <<"2">>]
  /\ Len(last.body) = 2
  /\ \E d \in scholarships : d \notin Range(last.body)
                             /\ d.applicationFees = last.body[2].applicationFees

(***************************************************************************)
(* Failures, roles, and the remaining properties of the routes.            *)
(***************************************************************************)
\* the statuses the routes answer with
AnswerStatuses == {200, 400, 401, 403, 404, 500}

\* C11: every request that ends has been answered, and one whose handler
\* raised an exception has been answered 500: no request is left without a
\* response.
C11_FailuresAnswered ==
  last.kind = "response" => last.status \in AnswerStatuses

(***************************************************************************)
(* SpecUsers: the routes that write users, one request at a time.          *)
(***************************************************************************)
RoleUserBodies == {[email |-> <<"A">>, name |-> "n", photoURL |-> "p"],
                   [email |-> <<"a">>, name |-> "m", photoURL |-> "q", role |-> "admin"],
                   [email |-> <<"b">>, name |-> "n", photoURL |-> "p", role |-> "moderator"]}

UsersReceive ==
  \E h \in {<<>>, Bearer("student"), Bearer("admin")} :
    \/ \E s \in Slots, b \in RoleUserBodies : PostUsers(s, Req(h, None, None, b))
    \/ \E p \in EmailParams, b \in ProfileBodies \cup {[displayName |-> "m", role |-> "admin"]} :
         PatchUserProfile(Req(h, p, None, b))
    \/ \E p \in IdParams, b \in RoleBodies \cup {[role |-> "student"]} :
         PatchUserRole(Req(h, p, None, b))
    \/ \E p \in IdParams : DeleteUser(Req(h, p, None, None))

NextUsers == UsersReceive \/ (\E s \in Slots : PostUsersWrite(s)) \/ Settle

SpecUsers == Init /\ [][NextUsers]_vars

\* C12: the role of a stored user changes only in a step of a PATCH
\* /users/:id/role request that passed the admin guard, and a user created
\* by a caller without admin rights has role "student".
C12_RoleAdminOnly ==
  [][\A v \in users' :
       /\ (\E u \in users : u._id = v._id /\ Field(u, "role") # Field(v, "role")) =>
            last'.route = "PATCH /users/:id/role" /\ last'.user.role = "admin"
       /\ ((\A u \in users : u._id # v._id) /\ BearerRole(last'.req) # "admin") =>
            v.role = "student"]_vars

(***************************************************************************)
(* SpecCheckout: POST /create-checkout-session.  An amount is written in   *)
(* thousandths of a currency unit, so 49990 is 49.99; a product in doubles *)
(* is its exact value with an error far below a thousandth, whose sign is  *)
(* left open.                                                              *)
(***************************************************************************)
MaxAmountStep == 20

\* totalAmount * 100: the exact value in tenths of a minor unit and the sign
\* of the rounding error of the double product
Times100(totalAmount) == {[tenths |-> totalAmount, eps |-> e] : e \in {-1, 0, 1}}

\* floor(x) in minor units, without the half that Math.round adds
MathFloor(x) ==
  IF x.tenths % 10 = 0 /\ x.eps < 0 THEN (x.tenths \div 10) - 1 ELSE x.tenths \div 10

\* Math.round(x) = floor(x + 0.5), in minor units
MathRound(x) ==
  IF (x.tenths + 5) % 10 = 0 /\ x.eps < 0
  THEN ((x.tenths + 5) \div 10) - 1
  ELSE (x.tenths + 5) \div 10

\* Math.round(totalAmount * 100); NaN when totalAmount is undefined
UnitAmounts(body) ==
  IF Has(body, "totalAmount") THEN {MathRound(x) : x \in Times100(body.totalAmount)}
  ELSE {NaN}

\* the line item of the session request
LineItem(unit) == [currency |-> "usd", unit_amount |-> unit, quantity |-> 1]

\* what stripe.checkout.sessions.create may do with a request: resolve with a
\* session, or reject with the provider's message; an amount that is no
\* number is rejected
ProviderOutcomes(unit) ==
  IF unit = NaN THEN {[ok |-> FALSE, message |-> "Invalid integer"]}
  ELSE {[ok |-> TRUE, message |-> ""], [ok |-> FALSE, message |-> "card_declined"]}

CreateCheckoutSession(req) ==
  LET route == "POST /create-checkout-session"
      ctx == RunChain(route, req)
  IN /\ Accepting
     /\ IF ~Has(req.body, "customer")
        THEN last' = Handled(route, req, ctx, 500, <<>>,
                             [called |-> FALSE, item |-> LineItem(NaN), ok |-> FALSE,
                              message |-> "", error |-> "TypeError"])
        ELSE \E unit \in UnitAmounts(req.body) : \E out \in ProviderOutcomes(unit) :
               last' = Handled(route, req, ctx, IF out.ok THEN 200 ELSE 500,
                               <<"stripe.checkout.sessions.create">>,
                               [called |-> TRUE, item |-> LineItem(unit), ok |-> out.ok,
                                message |-> out.message, error |-> out.message])
     /\ UNCHANGED <<store, now, inflight>>

CheckoutAmounts == {0, 5, 1005, 1150, 2675} \cup {49990 + k : k \in 0..MaxAmountStep}

CheckoutBodies ==
  {[totalAmount |-> a, customer |-> "c"] : a \in CheckoutAmounts}
    \cup {[customer |-> "c"], [totalAmount |-> 49990]}

NextCheckout ==
  \/ \E b \in CheckoutBodies : CreateCheckoutSession(Req(<<>>, None, None, b))
  \/ \E b \in ApplicationBodies : PostApplication(Req(Bearer("student"), None, None, b))
  \/ Settle

SpecCheckout == Init /\ [][NextCheckout]_vars

\* C13: a POST /create-checkout-session step writes to none of the four
\* collections; the line item it sends has quantity 1, currency "usd" and, for
\* a numeric totalAmount, as unit amount an integer nearest to the amount
\* times 100, which is the amount times 100 itself when that is whole (49.99
\* gives 4999); and a provider failure is answered 500 with the provider's
\* message.
C13_CheckoutPricing ==
  [][(last'.kind = "response" /\ last'.route = "POST /create-checkout-session") =>
       /\ UNCHANGED <<users, scholarships, applications, reviews>>
       /\ last'.body.called =>
            LET item == last'.body.item
                tenths == last'.req.body.totalAmount
            IN /\ item.quantity = 1 /\ item.currency = "usd"
               /\ Has(last'.req.body, "totalAmount") =>
                    /\ 10 * item.unit_amount - tenths \in -5..5
                    /\ tenths % 10 = 0 => 10 * item.unit_amount = tenths
               /\ ~last'.body.ok =>
                    last'.status = 500 /\ last'.body.error = last'.body.message
               /\ last'.body.ok => last'.status = 200]_vars

\* 49.99 was sent as 4999, the provider failed, and an application is stored
C13_Witness ==
  /\ last.kind = "response" /\ last.route = "POST /create-checkout-session"
  /\ last.req.body = [totalAmount |-> 49990, customer |-> "c"] /\ last.body.called
  /\ last.body.item.unit_amount = 4999
  /\ last.status = 500 /\ last.body.error = "card_declined"
  /\ applications # {}

\* C14: in PATCH /application/:id/review the write of the review and the
\* write of the reviewed flag are separate steps, the review first, and when
\* the request is answered 200 its application is flagged reviewed.
C14_ReviewNotAtomic ==
  [][last'.route = "PATCH /application/:id/review" =>
       /\ reviews' # reviews =>
            /\ applications' = applications
            /\ last'.kind = "step"
       /\ applications' # applications =>
            /\ reviews' = reviews
            /\ "reviews.updateOne" \in Range(last'.ops) \/ "reviews.insertOne" \in Range(last'.ops)
       /\ (last'.kind = "response" /\ last'.status = 200) =>
            \A a \in applications' :
              a._id = last'.req.params.id => Has(a, "reviewed") /\ a.reviewed = TRUE]_vars

\* between the two writes: the review of the pair is stored, the application
\* is not flagged, and the other request in flight is looking at the store
C14_Witness ==
  \E s, t \in Slots :
    /\ inflight[s].pc = "review:flag"
    /\ inflight[t].pc = "review:existing"
    /\ \E a \in applications :
         /\ a._id = inflight[s].req.params.id
         /\ ~Has(a, "reviewed")
         /\ \E r \in reviews : r.scholarshipId = a.scholarshipId /\ r.userEmail = a.userEmail

(***************************************************************************)
(* SpecDashboard: GET /application/dashboard/status over stores with up to *)
(* MaxDashApps applications of two users, one request at a time.           *)
(***************************************************************************)
MaxDashApps == 4

Statuses == <<"pending", "processing", "completed", "rejected">>

\* the applications 1..n, of users a and b in turn
DashboardApplications(n) ==
  {[_id |-> i, userEmail |-> IF i % 2 = 0 THEN <<"b">> ELSE <<"a">>,
    applicationStatus |-> Statuses[(i % 3) + 1]] : i \in 1..n}

\* user a with each role, with and without user b
DashboardUsers ==
  {{}} \cup {{[_id |-> 1, email |-> <<"a">>, role |-> r]} : r \in Roles}
       \cup {{[_id |-> 1, email |-> <<"a">>, role |-> r],
              [_id |-> 2, email |-> <<"b">>, role |-> "student"]} : r \in Roles}

InitDashboard ==
  /\ users \in DashboardUsers
  /\ scholarships = {}
  /\ \E n \in 0..MaxDashApps : applications = DashboardApplications(n)
  /\ reviews = {}
  /\ ids = [users |-> Cardinality(users), scholarships |-> 0,
            applications |-> Cardinality(applications), reviews |-> 0]
  /\ now = 0
  /\ inflight = [s \in 1..1 |-> Idle]
  /\ last = NoStep

DashboardEmails == {None, [email |-> <<>>], [email |-> <<"a">>], [email |-> <<"b">>],
                    [email |-> <<"A">>]}

NextDashboard ==
  \/ \E s \in Slots, h \in {<<>>, Bearer("student"), Bearer("admin")}, q \in DashboardEmails :
       DashboardStatus(s, Req(h, None, q, None))
  \/ \E s \in Slots : DashboardCount(s)
  \/ \E s \in Slots : DashboardAggregate(s)
  \/ Settle

SpecDashboard == InitDashboard /\ [][NextDashboard]_vars

\* the dashboard has just answered a request that passed its guards
DashboardAnswered ==
  /\ last.kind = "response" /\ last.route = "GET /application/dashboard/status"
  /\ HandlerRan /\ last.status = 200

\* the applications the counts are over when they are restricted to the
\* email parameter
OfEmailParameter == {a \in applications : a.userEmail = last.req.query.email}

\* an email parameter is given and no admin or moderator is stored under it
RestrictedCase ==
  /\ Has(last.req.query, "email") /\ last.req.query.email # <<>>
  /\ ~\E u \in users : u.email = last.req.query.email /\ u.role \in {"admin", "moderator"}

NewApplicationBodies ==
  ApplicationBodies \cup
    {[scholarshipId |-> 1, userEmail |-> <<"a">>, applicationStatus |-> "approved",
      paymentStatus |-> "paid"]}

AnyApplicationPatches == ApplicationPatches \cup {[applicationStatus |-> "archived"]}

AnyStatusBodies == StatusBodies \cup {[status |-> "done"], None}

ApplicationsReceive ==
  \E h \in {Bearer("student"), Bearer("moderator")} :
    \/ \E b \in NewApplicationBodies : PostApplication(Req(h, None, None, b))
    \/ \E p \in IdParams, b \in AnyApplicationPatches : PatchApplication(Req(h, p, None, b))
    \/ \E p \in IdParams, b \in AnyStatusBodies : PatchApplicationStatus(Req(h, p, None, b))
    \/ \E p \in IdParams, b \in FeedbackBodies : PatchApplicationFeedback(Req(h, p, None, b))
    \/ \E p \in IdParams : DeleteApplication(Req(h, p, None, None))

NextApplications == ApplicationsReceive \/ Tick \/ Settle

SpecApplications == Init /\ [][NextApplications]_vars

\* C16: every stored application has an applicationStatus among pending,
\* processing, completed and rejected, and an application created from a
\* body without applicationStatus has applicationStatus "pending" and
\* paymentStatus "unpaid".
C16_StatusDomain ==
  [][\A a \in applications' :
       /\ Has(a, "applicationStatus") /\ a.applicationStatus \in Range(Statuses)
       /\ ((\A b \in applications : b._id # a._id)
           /\ ~Has(last'.req.body, "applicationStatus")) =>
            a.applicationStatus = "pending" /\ a.paymentStatus = "unpaid"]_vars

\* C17: when no request is in flight, every application flagged reviewed has
\* a review stored for its (scholarshipId, applicant email) pair.
C17_ReviewedHasReview ==
  (\A s \in Slots : inflight[s].pc = "idle") =>
    \A a \in applications :
      (Has(a, "reviewed") /\ a.reviewed = TRUE) =>
        \E r \in reviews : /\ r.scholarshipId = ScholarshipIdOf(a)
                           /\ r.userEmail = ApplicantEmail(a)

====
